---- MODULE Spec2Model ----
(***************************************************************************)
(* Model of the mdbook frontmatter preprocessor (src/src/lib.rs).          *)
(*                                                                         *)
(* Strings are sequences of one-character strings, so that splitting at a  *)
(* colon, trimming and the regex passes of linkify_text are computed, not  *)
(* assumed.  Literal pieces of format! templates are kept as one element   *)
(* (they contain no character that any pattern of the code starts at).     *)
(* An event of pulldown_cmark is a record [type, tag, text].               *)
(* The markup text of a chapter is represented by the event sequence the   *)
(* external parser yields for it / the serializer was given for it.        *)
(***************************************************************************)
EXTENDS Integers, Sequences, FiniteSets, TLC

VARIABLES
    pc,                     \* position in run: "for_each", "scan", "done"
    input,                  \* the book as handed to run: the items visited so far
    book,                   \* the same items as run leaves them
    capture,                \* lib.rs:58
    frontmatter_collection, \* lib.rs:59
    formatted_content,      \* lib.rs:60
    cmark_result,           \* result of the last call of cmark: "none", "Ok", "Err"
    run_result,             \* "running", "Ok", "Err", "panic"
    args,                   \* a call of a pure function: the pieces of its argument
    ret                     \* a call of a pure function: what it returned

vars == <<pc, input, book, capture, frontmatter_collection, formatted_content,
          cmark_result, run_result, args, ret>>

\* ---------------------------------------------------------------- bounds
\* size of the input run is given: items of the book plus events of its chapters
MaxInput == 5
\* number of pieces an argument of linkify_text or parse_frontmatter is made of
MaxPieces == 3

\* ---------------------------------------------------------------- events
Text(s) == [type |-> "Text", tag |-> "", text |-> s]
Html(s) == [type |-> "Html", tag |-> "", text |-> s]
Start(k) == [type |-> "Start", tag |-> k, text |-> <<>>]
End(k) == [type |-> "End", tag |-> k, text |-> <<>>]
SoftBreak == [type |-> "SoftBreak", tag |-> "", text |-> <<>>]

frontmatter_delimiter == <<"+", "+", "+">>

\* ---------------------------------------------------------------- strings
Whitespace == {" ", "\t", "\n", "\r"}

Lower == {"a", "b", "c", "d", "e", "f", "g", "h", "i", "j", "k", "l", "m",
          "n", "o", "p", "q", "r", "s", "t", "u", "v", "w", "x", "y", "z"}
Upper == {"A", "B", "C", "D", "E", "F", "G", "H", "I", "J", "K", "L", "M",
          "N", "O", "P", "Q", "R", "S", "T", "U", "V", "W", "X", "Y", "Z"}
Digit == {"0", "1", "2", "3", "4", "5", "6", "7", "8", "9"}
AlphaNum == Lower \cup Upper \cup Digit

RECURSIVE trim_start(_)
trim_start(s) ==
    IF s = <<>> \/ Head(s) \notin Whitespace THEN s ELSE trim_start(Tail(s))

RECURSIVE trim_end(_)
trim_end(s) ==
    IF s = <<>> \/ s[Len(s)] \notin Whitespace THEN s
    ELSE trim_end(SubSeq(s, 1, Len(s) - 1))

trim(s) == trim_end(trim_start(s))

\* index of the first c in s at or after i, 0 when there is none
RECURSIVE find(_, _, _)
find(s, c, i) ==
    IF i > Len(s) THEN 0
    ELSE IF s[i] = c THEN i
    ELSE find(s, c, i + 1)

\* splitn2 as rsplitn: the split is at the last colon
splitn2_last(line) ==
    LET at == {i \in 1..Len(line) : line[i] = ":"}
        i == CHOOSE m \in at : \A x \in at : x <= m
    IN  IF at = {} THEN <<line>>
        ELSE <<SubSeq(line, 1, i - 1), SubSeq(line, i + 1, Len(line))>>

\* line.splitn(2, ':').collect()
splitn2(line) ==
    LET i == find(line, ":", 1)
    IN  IF i = 0 THEN <<line>>
        ELSE <<SubSeq(line, 1, i - 1), SubSeq(line, i + 1, Len(line))>>

\* ---------------------------------------------------------------- linkify_text
HandleClass == AlphaNum \cup {"_"}
LocalClass == AlphaNum \cup {"_", ".", "+", "-"}
DomainClass == AlphaNum \cup {"-"}
TldClass == AlphaNum \cup {"-", "."}

\* last index of the longest run of characters of class cls that starts at i
\* (i - 1 when s[i] is not in cls)
RECURSIVE run_end(_, _, _)
run_end(s, i, cls) ==
    IF i > Len(s) \/ s[i] \notin cls THEN i - 1 ELSE run_end(s, i + 1, cls)

\* \(@([a-zA-Z0-9_]+)\) matched at i: index of the closing parenthesis, or 0
github_match(s, i) ==
    IF i + 1 <= Len(s) /\ s[i] = "(" /\ s[i + 1] = "@"
    THEN LET e == run_end(s, i + 2, HandleClass)
         IN  IF e >= i + 2 /\ e + 1 <= Len(s) /\ s[e + 1] = ")" THEN e + 1 ELSE 0
    ELSE 0

github_link(h) ==
    <<"(", "<a href=\"https://github.com/">> \o h \o <<"\">", "@">> \o h
        \o <<"</a>", ")">>

\* github_replace_all as regex replace: the first match only
RECURSIVE github_replace_first(_, _)
github_replace_first(s, i) ==
    IF i > Len(s) THEN <<>>
    ELSE LET e == github_match(s, i)
         IN  IF e > 0
             THEN github_link(SubSeq(s, i + 2, e - 1)) \o SubSeq(s, e + 1, Len(s))
             ELSE <<s[i]>> \o github_replace_first(s, i + 1)

RECURSIVE github_replace_all(_, _)
github_replace_all(s, i) ==
    IF i > Len(s) THEN <<>>
    ELSE LET e == github_match(s, i)
         IN  IF e > 0
             THEN github_link(SubSeq(s, i + 2, e - 1)) \o github_replace_all(s, e + 1)
             ELSE <<s[i]>> \o github_replace_all(s, i + 1)

\* \(([a-zA-Z0-9_.+-]+@[a-zA-Z0-9-]+\.[a-zA-Z0-9-.]+)\) matched at i:
\* index of the closing parenthesis, or 0
email_match(s, i) ==
    IF i <= Len(s) /\ s[i] = "("
    THEN LET l == run_end(s, i + 1, LocalClass)
         IN  IF l >= i + 1 /\ l + 1 <= Len(s) /\ s[l + 1] = "@"
             THEN LET d == run_end(s, l + 2, DomainClass)
                  IN  IF d >= l + 2 /\ d + 1 <= Len(s) /\ s[d + 1] = "."
                      THEN LET t == run_end(s, d + 2, TldClass)
                           IN  IF t >= d + 2 /\ t + 1 <= Len(s) /\ s[t + 1] = ")"
                               THEN t + 1 ELSE 0
                      ELSE 0
             ELSE 0
    ELSE 0

email_link(m) ==
    <<"(", "<a href=\"mailto:">> \o m \o <<"\">">> \o m \o <<"</a>", ")">>

RECURSIVE email_replace_all(_, _)
email_replace_all(s, i) ==
    IF i > Len(s) THEN <<>>
    ELSE LET e == email_match(s, i)
         IN  IF e > 0
             THEN email_link(SubSeq(s, i + 1, e - 1)) \o email_replace_all(s, e + 1)
             ELSE <<s[i]>> \o email_replace_all(s, i + 1)

linkify_text(text) == email_replace_all(github_replace_all(text, 1), 1)

\* ---------------------------------------------------------------- parse_frontmatter
\* parse_line without the two calls of trim
parse_line_untrimmed(line) ==
    LET parts == splitn2(line)
    IN  IF Len(parts) = 2 THEN <<(<<parts[1], parts[2]>>)>> ELSE <<>>

\* parse_line with an entry of empty value for a line without a colon
parse_line_keep_colonfree(line) ==
    LET parts == splitn2(line)
    IN  IF Len(parts) = 2 THEN <<(<<trim(parts[1]), trim(parts[2])>>)>>
        ELSE <<(<<trim(parts[1]), <<>> >>)>>

\* the closure of filter_map: the entries (0 or 1) one line gives
parse_line(line) ==
    LET parts == splitn2(line)
    IN  IF Len(parts) = 2 THEN <<(<<trim(parts[1]), trim(parts[2])>>)>> ELSE <<>>

\* parse_frontmatter collected into a map: of the lines with one key the last
RECURSIVE parse_frontmatter_last_wins(_)
parse_frontmatter_last_wins(frontmatter_text) ==
    IF frontmatter_text = <<>> THEN <<>>
    ELSE LET first == parse_line(Head(frontmatter_text))
             rest == parse_frontmatter_last_wins(Tail(frontmatter_text))
         IN  IF first # <<>> /\ \E k \in 1..Len(rest) : rest[k][1] = first[1][1]
             THEN rest ELSE first \o rest

RECURSIVE parse_frontmatter(_)
parse_frontmatter(frontmatter_text) ==
    IF frontmatter_text = <<>> THEN <<>>
    ELSE parse_line(Head(frontmatter_text)) \o parse_frontmatter(Tail(frontmatter_text))

\* ---------------------------------------------------------------- create_html_table_events
TableOpen == Html(<<"<table class=\"preamble\">\n">>)
TableClose == Html(<<"</table>\n">>)

\* format!("<tr><th>{}</td><td>{}</td></tr>\n", key, value)
format_row(key, value) ==
    <<"<tr><th>">> \o key \o <<"</td><td>">> \o value \o <<"</td></tr>\n">>

\* row_event with the value linkified whatever the key
row_event_linkify_all(entry) ==
    Html(format_row(entry[1], linkify_text(entry[2])))

\* the body of the loop over the entries: the event pushed for one entry
row_event(entry) ==
    LET key == entry[1]
        value == IF key = <<"a", "u", "t", "h", "o", "r">>
                 THEN linkify_text(entry[2]) ELSE entry[2]
    IN  Html(format_row(key, value))

\* create_html_table_events with the rows pushed after the closing fragment
create_html_table_events_rows_last(frontmatter) ==
    <<Start("HtmlBlock"), TableOpen, TableClose>>
        \o [i \in 1..Len(frontmatter) |-> row_event(frontmatter[i])]
        \o <<End("HtmlBlock")>>

create_html_table_events(frontmatter) ==
    <<Start("HtmlBlock"), TableOpen>>
        \o [i \in 1..Len(frontmatter) |-> row_event(frontmatter[i])]
        \o <<TableClose, End("HtmlBlock")>>

\* ---------------------------------------------------------------- the input
\* the contents of the Text events the parser may yield
TextContents ==
    { frontmatter_delimiter,
      <<"a", "+", "+", "+">>,
      <<>>,
      <<" ", "k", " ", ":", " ", "v", ":", "w", " ">>,
      <<"k", ":">>,
      <<":", "x">>,
      <<"a", "u", "t", "h", "o", "r", ":", " ", "(", "@", "o", ")">>,
      <<"A", "u", "t", "h", "o", "r", ":", "(", "@", "o", ")">> }

\* the events the parser may yield
Events ==
    {Text(s) : s \in TextContents}
        \cup {Start("Paragraph"), End("Paragraph"), SoftBreak}

Chapter(content) == [kind |-> "Chapter", content |-> content]
\* BookItem::Separator and BookItem::PartTitle(title)
OtherItems ==
    { [kind |-> "Separator", content |-> <<>>],
      [kind |-> "PartTitle", content |-> <<"I">>] }

\* number of events the parser has yielded over all chapters
RECURSIVE TotalEvents(_)
TotalEvents(items) ==
    IF items = <<>> THEN 0
    ELSE (IF Head(items).kind = "Chapter" THEN Len(Head(items).content) ELSE 0)
            + TotalEvents(Tail(items))

\* items visited plus events yielded
InputSize(items) == Len(items) + TotalEvents(items)

\* the events of the chapter being scanned, as yielded so far
events == input[Len(input)].content

\* ---------------------------------------------------------------- the serializer
\* every Start(kind) has a matching, properly nested End(kind)
RECURSIVE Nested(_, _)
Nested(evs, stack) ==
    IF evs = <<>> THEN stack = <<>>
    ELSE LET e == Head(evs)
         IN  IF e.type = "Start" THEN Nested(Tail(evs), <<e.tag>> \o stack)
             ELSE IF e.type = "End"
                  THEN stack # <<>> /\ Head(stack) = e.tag
                       /\ Nested(Tail(evs), Tail(stack))
                  ELSE Nested(Tail(evs), stack)

WellFormed(evs) == Nested(evs, <<>>)

\* cmark(formatted_content.iter(), &mut buf) returns a Result; the serializer
\* is an external collaborator that fails only on malformed event sequences
cmark_outcomes(evs) == IF WellFormed(evs) THEN {"Ok"} ELSE {"Ok", "Err"}

\* ---------------------------------------------------------------- run
\* is_delimiter with the delimiter matched as a substring of the text
is_delimiter_contains(event) ==
    /\ event.type = "Text"
    /\ \E i \in 1..Len(event.text) :
           /\ i + 2 <= Len(event.text)
           /\ SubSeq(event.text, i, i + 2) = frontmatter_delimiter

\* the guard of the first match arm
is_delimiter(event) == event.type = "Text" /\ event.text = frontmatter_delimiter

\* match_arm with the last arm pushing the event
match_arm_push_last(event, cap) ==
    IF is_delimiter(event) THEN "delimiter"
    ELSE IF event.type = "Text" /\ cap THEN "capture"
    ELSE "push"

\* match_arm with the capture arm tried before the delimiter arm
match_arm_capture_first(event, cap) ==
    IF event.type = "Text" /\ cap THEN "capture"
    ELSE IF is_delimiter(event) THEN "delimiter"
    ELSE IF ~cap THEN "push"
    ELSE "ignore"

\* match_arm with the capture arm taking any event
match_arm_capture_any(event, cap) ==
    IF is_delimiter(event) THEN "delimiter"
    ELSE IF cap THEN "capture"
    ELSE "push"

\* the arm of the match the event takes: arms are tried in order
match_arm(event, cap) ==
    IF is_delimiter(event) THEN "delimiter"
    ELSE IF event.type = "Text" /\ cap THEN "capture"
    ELSE IF ~cap THEN "push"
    ELSE "ignore"

\* delimiter_output with a table at every delimiter
delimiter_output_always(cap, collection) ==
    create_html_table_events(parse_frontmatter(collection))

\* delimiter_output with no table for a region without entries
delimiter_output_skip_empty(cap, collection) ==
    IF cap /\ parse_frontmatter(collection) # <<>>
    THEN create_html_table_events(parse_frontmatter(collection))
    ELSE <<>>

\* the events the delimiter arm pushes
delimiter_output(cap, collection) ==
    IF cap THEN create_html_table_events(parse_frontmatter(collection)) ELSE <<>>

\* collection_after_delimiter without frontmatter_collection.clear()
collection_not_cleared(cap, collection) == collection

\* frontmatter_collection.clear() inside if capture
collection_after_delimiter(cap, collection) == IF cap THEN <<>> ELSE collection

\* toggle as capture = true
toggle_set(cap) == TRUE

\* capture = !capture
toggle(cap) == ~cap

\* initial_capture with the flag declared outside the closure
initial_capture_kept == capture

\* initial_content with the output buffer declared outside the closure
initial_content_kept == formatted_content

\* initial_collection with the buffer declared outside the closure
initial_collection_kept == frontmatter_collection

\* the locals of the closure as a chapter's scan begins
initial_capture == FALSE
initial_collection == <<>>
initial_content == <<>>

Init ==
    /\ pc = "for_each"
    /\ input = <<>>
    /\ book = <<>>
    /\ capture = FALSE
    /\ frontmatter_collection = <<>>
    /\ formatted_content = <<>>
    /\ cmark_result = "none"
    /\ run_result = "running"
    /\ args = <<>>
    /\ ret = <<>>

\* for_each_mut reaches an item that is a chapter
VisitChapter ==
    /\ pc = "for_each"
    /\ InputSize(input) < MaxInput
    /\ input' = Append(input, Chapter(<<>>))
    /\ book' = Append(book, Chapter(<<>>))
    /\ capture' = initial_capture
    /\ frontmatter_collection' = initial_collection
    /\ formatted_content' = initial_content
    /\ pc' = "scan"
    /\ UNCHANGED <<cmark_result, run_result, args, ret>>

\* for_each_mut reaches an item that is no chapter
VisitOther ==
    /\ pc = "for_each"
    /\ InputSize(input) < MaxInput
    /\ \E item \in OtherItems :
        /\ input' = Append(input, item)
        /\ book' = Append(book, item)
    /\ UNCHANGED <<pc, capture, frontmatter_collection, formatted_content,
                   cmark_result, run_result, args, ret>>

\* the parser yields event for the chapter being scanned
Yield(event) ==
    /\ pc = "scan"
    /\ InputSize(input) < MaxInput
    /\ input' = [input EXCEPT ![Len(input)].content = Append(@, event)]
    /\ book' = [book EXCEPT ![Len(book)].content = Append(@, event)]

\* Event::Text(ref text) if text == &frontmatter_delimiter
HandleDelimiter ==
    \E event \in Events :
        /\ Yield(event)
        /\ match_arm(event, capture) = "delimiter"
        /\ formatted_content' =
               formatted_content \o delimiter_output(capture, frontmatter_collection)
        /\ frontmatter_collection' =
               collection_after_delimiter(capture, frontmatter_collection)
        /\ capture' = toggle(capture)
        /\ UNCHANGED <<pc, cmark_result, run_result, args, ret>>

\* Event::Text(content) if capture
CaptureText ==
    \E event \in Events :
        /\ Yield(event)
        /\ match_arm(event, capture) = "capture"
        /\ frontmatter_collection' = Append(frontmatter_collection, event.text)
        /\ UNCHANGED <<pc, capture, formatted_content, cmark_result, run_result, args, ret>>

\* _ if !capture
PushEvent ==
    \E event \in Events :
        /\ Yield(event)
        /\ match_arm(event, capture) = "push"
        /\ formatted_content' = Append(formatted_content, event)
        /\ UNCHANGED <<pc, capture, frontmatter_collection, cmark_result, run_result, args, ret>>

\* _ => ()
IgnoreEvent ==
    \E event \in Events :
        /\ Yield(event)
        /\ match_arm(event, capture) = "ignore"
        /\ UNCHANGED <<pc, capture, frontmatter_collection, formatted_content,
                       cmark_result, run_result, args, ret>>

\* the parser is exhausted and cmark succeeds: chapter.content is replaced
SerializeOk ==
    /\ pc = "scan"
    /\ "Ok" \in cmark_outcomes(formatted_content)
    /\ cmark_result' = "Ok"
    /\ book' = [book EXCEPT ![Len(book)].content = formatted_content]
    /\ pc' = "for_each"
    /\ UNCHANGED <<input, capture, frontmatter_collection, formatted_content,
                   run_result, args, ret>>

\* the parser is exhausted and cmark fails:
\* expect("Markdown serialization failed") panics
SerializeErr ==
    /\ pc = "scan"
    /\ "Err" \in cmark_outcomes(formatted_content)
    /\ cmark_result' = "Err"
    /\ run_result' = "panic"
    /\ pc' = "done"
    /\ UNCHANGED <<input, book, capture, frontmatter_collection, formatted_content, args, ret>>

\* every item was visited: Ok(book)
Return ==
    /\ pc = "for_each"
    /\ run_result' = "Ok"
    /\ pc' = "done"
    /\ UNCHANGED <<input, book, capture, frontmatter_collection, formatted_content,
                   cmark_result, args, ret>>

Next ==
    \/ VisitChapter
    \/ VisitOther
    \/ HandleDelimiter
    \/ CaptureText
    \/ PushEvent
    \/ IgnoreEvent
    \/ SerializeOk
    \/ SerializeErr
    \/ Return

Spec == Init /\ [][Next]_vars

\* ---------------------------------------------------------------- calls of the pure functions
\* linkify_text and parse_frontmatter applied to arguments put together from
\* pieces: single characters and the two tokens of the documented examples
Pieces ==
    { <<"(">>, <<")">>, <<"@">>, <<".">>, <<"a">>, <<"-">>, <<":">>, <<" ">>,
      <<"(", "a", "@">>, <<"a", ".", "a", ")">>,
      <<" ", "k", " ", ":">>, <<" ", "v", ":", "w", " ">>,
      <<"(", "@", "o", "c", "t", "o", "c", "a", "t", ")">>,
      <<"(", "m", "e", "@", "e", "x", "a", "m", "p", "l", "e", ".", "c", "o", "m", ")">> }

RECURSIVE Flatten(_)
Flatten(pieces) ==
    IF pieces = <<>> THEN <<>> ELSE Head(pieces) \o Flatten(Tail(pieces))

InitCalls ==
    /\ pc = "pieces"
    /\ input = <<>>
    /\ book = <<>>
    /\ capture = FALSE
    /\ frontmatter_collection = <<>>
    /\ formatted_content = <<>>
    /\ cmark_result = "none"
    /\ run_result = "running"
    /\ args = <<>>
    /\ ret = <<>>

\* one more piece of the argument
AddPiece ==
    /\ pc = "pieces"
    /\ Len(args) < MaxPieces
    /\ \E p \in Pieces : args' = Append(args, p)
    /\ UNCHANGED <<pc, input, book, capture, frontmatter_collection,
                   formatted_content, cmark_result, run_result, ret>>

\* linkify_text(&value) on the text the pieces make
CallLinkify ==
    /\ pc = "pieces"
    /\ args' = <<Flatten(args)>>
    /\ ret' = linkify_text(Flatten(args))
    /\ pc' = "linkified"
    /\ UNCHANGED <<input, book, capture, frontmatter_collection, formatted_content,
                   cmark_result, run_result>>

\* parse_frontmatter(&frontmatter_collection) on the two lines the pieces make
\* when cut after the k-th piece
CallParse ==
    /\ pc = "pieces"
    /\ \E k \in 0..Len(args) :
        /\ args' = <<Flatten(SubSeq(args, 1, k)), Flatten(SubSeq(args, k + 1, Len(args)))>>
        /\ ret' = parse_frontmatter(args')
    /\ pc' = "parsed"
    /\ UNCHANGED <<input, book, capture, frontmatter_collection, formatted_content,
                   cmark_result, run_result>>

NextCalls ==
    \/ AddPiece
    \/ CallLinkify
    \/ CallParse

SpecCalls == InitCalls /\ [][NextCalls]_vars

\* ================================================================ properties
\* What the specification says of a unit's event sequence, stated by position
\* in the sequence rather than by the scanner's flag and buffers.

scanning == pc = "scan"

DelimiterEvent == Text(<<"+", "+", "+">>)

\* positions of the delimiter events of evs
Delims(evs) == {i \in 1..Len(evs) : evs[i] = DelimiterEvent}

\* number of delimiter events of evs before position i
DelimsBefore(evs, i) == Cardinality({j \in Delims(evs) : j < i})

Odd(n) == n % 2 = 1

SetMax(S) == CHOOSE m \in S : \A x \in S : x <= m
SetMin(S) == CHOOSE m \in S : \A x \in S : m <= x

\* the elements of seq at the positions in S, in ascending order of position
Pick(seq, S) ==
    LET at(k) == CHOOSE i \in S : Cardinality({j \in S : j < i}) = k - 1
    IN  [k \in 1..Cardinality(S) |-> seq[at(k)]]

\* s without its leading and trailing white space
Strip(s) ==
    LET black == {i \in 1..Len(s) : s[i] \notin {" ", "\t", "\n", "\r"}}
    IN  IF black = {} THEN <<>> ELSE SubSeq(s, SetMin(black), SetMax(black))

Colons(s) == {i \in 1..Len(s) : s[i] = ":"}
KeyOf(s) == Strip(SubSeq(s, 1, SetMin(Colons(s)) - 1))
ValueOf(s) == Strip(SubSeq(s, SetMin(Colons(s)) + 1, Len(s)))

AuthorKey == <<"a", "u", "t", "h", "o", "r">>

\* the row fragment of a line that has a colon
RowOf(s) ==
    Html(<<"<tr><th>">> \o KeyOf(s) \o <<"</td><td>">>
            \o (IF KeyOf(s) = AuthorKey THEN linkify_text(ValueOf(s)) ELSE ValueOf(s))
            \o <<"</td></tr>\n">>)

IsRow(e) == e.type = "Html" /\ e.text # <<>> /\ Head(e.text) = "<tr><th>"

\* positions strictly between a and b of the Text events with a colon
ColonLines(evs, a, b) ==
    {i \in (a + 1)..(b - 1) : evs[i].type = "Text" /\ Colons(evs[i].text) # {}}

\* C1: a unit with exactly one delimiter pair enclosing N Text events that have
\* a colon gets a table of exactly N rows, in the order of those Text events,
\* each built from the trimmed key and the trimmed value of its line.
C1_RowsOfPair ==
    (scanning /\ Cardinality(Delims(events)) = 2) =>
        LET a == SetMin(Delims(events))
            b == SetMax(Delims(events))
            lines == Pick(events, ColonLines(events, a, b))
            rows == SelectSeq(formatted_content, IsRow)
        IN  /\ Len(rows) = Len(lines)
            /\ \A k \in 1..Len(lines) : rows[k] = RowOf(lines[k].text)

\* two different rows, the first from a line with white space around key and value
C1_Witness ==
    /\ scanning
    /\ Cardinality(Delims(events)) = 2
    /\ Len(events) = 4
    /\ events[2].text = <<" ", "k", " ", ":", " ", "v", ":", "w", " ">>
    /\ events[3].text = <<"k", ":">>
    /\ SelectSeq(formatted_content, IsRow) =
        << Html(<<"<tr><th>", "k", "</td><td>", "v", ":", "w", "</td></tr>\n">>),
           Html(<<"<tr><th>", "k", "</td><td>", "</td></tr>\n">>) >>

\* the events of a rendered table (the input of the model holds none)
IsTableEvent(e) == e.type = "Html" \/ e.tag = "HtmlBlock"
NotTableEvent(e) == ~IsTableEvent(e)

\* positions of the events seen while no region is open
Outside(evs) ==
    {i \in 1..Len(evs) : i \notin Delims(evs) /\ ~Odd(DelimsBefore(evs, i))}

\* C2: every event that is no delimiter and is seen while capturing is false
\* is in the output, unchanged and in its order; with no delimiter at all the
\* output is the input.
C2_OutsidePreserved ==
    scanning =>
        /\ SelectSeq(formatted_content, NotTableEvent) = Pick(events, Outside(events))
        /\ (Delims(events) = {} => formatted_content = events)

C2_Witness ==
    /\ scanning
    /\ Delims(events) = {}
    /\ Len(events) = 4
    /\ events[2] = Text(<<"a", "+", "+", "+">>)
    /\ events[3] = SoftBreak
    /\ formatted_content = events

\* the contents of the Text events strictly between positions a and b
TextsBetween(evs, a, b) ==
    LET at == Pick(evs, {i \in (a + 1)..(b - 1) : evs[i].type = "Text"})
    IN  [k \in 1..Len(at) |-> at[k].text]

\* what position i of evs adds to the output: a closing delimiter the table of
\* its region, an opening delimiter and an event inside a region nothing, any
\* other event itself
Contribution(evs, i) ==
    IF i \in Delims(evs)
    THEN IF Odd(DelimsBefore(evs, i))
         THEN create_html_table_events(parse_frontmatter(
                  TextsBetween(evs, SetMax({j \in Delims(evs) : j < i}), i)))
         ELSE <<>>
    ELSE IF Odd(DelimsBefore(evs, i)) THEN <<>> ELSE <<evs[i]>>

RECURSIVE EmittedUpTo(_, _)
EmittedUpTo(evs, n) ==
    IF n = 0 THEN <<>> ELSE EmittedUpTo(evs, n - 1) \o Contribution(evs, n)

Emitted(evs) == EmittedUpTo(evs, Len(evs))

\* C3: with an odd number of delimiters the output is what was emitted up to
\* the last delimiter: no later event is in it and no table is rendered for
\* the lines captured after it; the tables of earlier pairs are in it.
C3_UnterminatedDropped ==
    (scanning /\ Odd(Cardinality(Delims(events)))) =>
        LET last == SetMax(Delims(events))
        IN  /\ formatted_content = Emitted(SubSeq(events, 1, last - 1))
            /\ Cardinality({i \in 1..Len(formatted_content) :
                               formatted_content[i] = TableOpen})
                   = (Cardinality(Delims(events)) - 1) \div 2

\* a complete (empty) pair, then an unmatched delimiter followed by a line
C3_Witness ==
    /\ scanning
    /\ Len(events) = 4
    /\ Delims(events) = {1, 2, 3}
    /\ events[4] = Text(<<" ", "k", " ", ":", " ", "v", ":", "w", " ">>)
    /\ formatted_content = <<Start("HtmlBlock"), TableOpen, TableClose, End("HtmlBlock")>>

\* C4 (as claimed): a well-formed input gives a well-formed output.
C4_OutputWellFormed ==
    (scanning /\ WellFormed(events)) => WellFormed(formatted_content)

\* C5: no delimiter event is in the output or in the buffer of raw lines, and
\* capture mode is toggled by the Text events whose content is exactly the
\* delimiter and by nothing else.
C5_DelimiterConsumed ==
    scanning =>
        /\ \A i \in 1..Len(formatted_content) : formatted_content[i] # DelimiterEvent
        /\ \A i \in 1..Len(frontmatter_collection) :
               frontmatter_collection[i] # <<"+", "+", "+">>
        /\ capture = Odd(Cardinality(Delims(events)))

\* a Text holding the delimiter as a substring is forwarded, then captured
C5_Witness ==
    /\ scanning
    /\ events = << Text(<<"a", "+", "+", "+">>), DelimiterEvent,
                   Text(<<"a", "+", "+", "+">>), Start("Paragraph") >>
    /\ capture
    /\ formatted_content = <<Text(<<"a", "+", "+", "+">>)>>
    /\ frontmatter_collection = <<(<<"a", "+", "+", "+">>)>>

\* C6 (as claimed): a failure of the serializer is returned by run as Err.
C6_FailureReturned ==
    cmark_result = "Err" => run_result = "Err"

\* C7 (as claimed): the output has no more events than the input.
C7_NoLonger ==
    scanning => Len(formatted_content) <= Len(events)

\* C7 (amended): the output has at most two events more than the input for
\* each complete delimiter pair.
C7_AtMostTwoMorePerPair ==
    scanning =>
        Len(formatted_content)
            <= Len(events) + 2 * (Cardinality(Delims(events)) \div 2)

\* an empty pair: two events in, the four events of the empty table out
C7_Witness ==
    /\ scanning
    /\ events = <<DelimiterEvent, DelimiterEvent>>
    /\ Len(formatted_content) = 4

\* the items whose processing is over
Completed(i) ==
    /\ input[i].kind = "Chapter"
    /\ (i < Len(input) \/ pc = "for_each" \/ run_result = "Ok")

\* C8: a unit's scan starts closed with empty buffers whatever the scan before
\* it left, so flag, buffers and result are a function of the unit's own
\* events; the collection keeps its items in number and order, and an item that
\* is no chapter is unchanged.
C8_UnitsIndependent ==
    /\ Len(book) = Len(input)
    /\ \A i \in 1..Len(input) :
        /\ book[i].kind = input[i].kind
        /\ (input[i].kind # "Chapter" => book[i] = input[i])
        /\ (Completed(i) => book[i].content = Emitted(input[i].content))
    /\ scanning =>
        /\ formatted_content = Emitted(events)
        /\ capture = Odd(Cardinality(Delims(events)))
        /\ frontmatter_collection =
               IF Delims(events) = {} \/ ~Odd(Cardinality(Delims(events))) THEN <<>>
               ELSE TextsBetween(events, SetMax(Delims(events)), Len(events) + 1)

\* the scan of the first chapter ended inside a region with a line buffered;
\* the second chapter is being scanned and has forwarded an event
C8_Witness ==
    /\ scanning
    /\ Len(input) = 2
    /\ input[1].kind = "Chapter"
    /\ Len(input[1].content) = 2
    /\ Delims(input[1].content) = {1}
    /\ input[1].content[2].type = "Text"
    /\ book[1].content = <<>>
    /\ Len(events) = 1
    /\ formatted_content = events

\* the link linkify_text makes of the value (@o)
LinkedO ==
    <<"(", "<a href=\"https://github.com/", "o", "\">", "@", "o", "</a>", ")">>

\* C9: in the table of a unit with one delimiter pair, the value of a row is
\* the linkified value iff the trimmed key is exactly author; any other key,
\* Author included, has its trimmed value unmodified; the events after the
\* closing delimiter follow the table unmodified.
C9_LinkifyOnlyAuthor ==
    (scanning /\ Cardinality(Delims(events)) = 2) =>
        LET a == SetMin(Delims(events))
            b == SetMax(Delims(events))
            lines == Pick(events, ColonLines(events, a, b))
            rows == SelectSeq(formatted_content, IsRow)
            cell(v) == Html(<<"<tr><th>">> \o KeyOf(v) \o <<"</td><td>">>
                              \o ValueOf(v) \o <<"</td></tr>\n">>)
            linked(v) == Html(<<"<tr><th>">> \o KeyOf(v) \o <<"</td><td>">>
                              \o LinkedO \o <<"</td></tr>\n">>)
        IN  /\ Len(rows) = Len(lines)
            /\ \A k \in 1..Len(lines) :
                LET v == lines[k].text
                IN  /\ KeyOf(v) # AuthorKey => rows[k] = cell(v)
                    /\ (KeyOf(v) = AuthorKey /\ ValueOf(v) = <<"(", "@", "o", ")">>)
                           => rows[k] = linked(v)
                    /\ (rows[k] # cell(v)) => KeyOf(v) = AuthorKey
            /\ SubSeq(formatted_content, (a - 1) + Len(lines) + 5, Len(formatted_content))
                   = SubSeq(events, b + 1, Len(events))

\* an author row that is linked and an Author row with the same value that is not
C9_Witness ==
    /\ scanning
    /\ events = << DelimiterEvent,
                   Text(<<"a", "u", "t", "h", "o", "r", ":", " ", "(", "@", "o", ")">>),
                   Text(<<"A", "u", "t", "h", "o", "r", ":", "(", "@", "o", ")">>),
                   DelimiterEvent >>
    /\ formatted_content[3].text =
           <<"<tr><th>", "a", "u", "t", "h", "o", "r", "</td><td>">> \o LinkedO
               \o <<"</td></tr>\n">>
    /\ formatted_content[4].text =
           <<"<tr><th>", "A", "u", "t", "h", "o", "r", "</td><td>",
             "(", "@", "o", ")", "</td></tr>\n">>

HasColon(s) == Colons(s) # {}

RowKey(e) ==
    LET sep == SetMin({i \in 1..Len(e.text) : e.text[i] = "</td><td>"})
    IN  SubSeq(e.text, 2, sep - 1)

\* C11: lines of one region with the same key are not merged: the table has as
\* many rows with a key as the region has lines with it, and each of these
\* lines gives its own row, with its own value, at the place the line has
\* among the lines with a colon.
C11_DuplicateKeysKept ==
    (scanning /\ Cardinality(Delims(events)) = 2) =>
        LET a == SetMin(Delims(events))
            b == SetMax(Delims(events))
            lines == Pick(events, ColonLines(events, a, b))
            rows == SelectSeq(formatted_content, IsRow)
            withKey(key) == {k \in 1..Len(lines) : KeyOf(lines[k].text) = key}
        IN  \A i \in 1..Len(lines) :
                LET same == withKey(KeyOf(lines[i].text))
                IN  /\ Cardinality({k \in 1..Len(rows) :
                                       RowKey(rows[k]) = KeyOf(lines[i].text)})
                           = Cardinality(same)
                    /\ \A k \in same : k <= Len(rows) /\ rows[k] = RowOf(lines[k].text)

\* key k twice with two values: two rows, in the order of the lines
C11_Witness ==
    /\ scanning
    /\ events = << DelimiterEvent, Text(<<"k", ":">>),
                   Text(<<" ", "k", " ", ":", " ", "v", ":", "w", " ">>),
                   DelimiterEvent >>
    /\ formatted_content =
        << Start("HtmlBlock"), TableOpen,
           Html(<<"<tr><th>", "k", "</td><td>", "</td></tr>\n">>),
           Html(<<"<tr><th>", "k", "</td><td>", "v", ":", "w", "</td></tr>\n">>),
           TableClose, End("HtmlBlock") >>

\* s[i..j] is a token (@handle), handle one or more of a-z A-Z 0-9 _
IsHandleToken(s, i, j) ==
    /\ j >= i + 3
    /\ s[i] = "(" /\ s[i + 1] = "@" /\ s[j] = ")"
    /\ \A k \in (i + 2)..(j - 1) : s[k] \in AlphaNum \cup {"_"}

\* s[i..j] is a token (local@domain.rest)
IsEmailToken(s, i, j) ==
    /\ s[i] = "(" /\ s[j] = ")"
    /\ \E at \in (i + 2)..(j - 1) : \E dot \in (at + 2)..(j - 2) :
        /\ s[at] = "@" /\ s[dot] = "."
        /\ \A k \in (i + 1)..(at - 1) : s[k] \in AlphaNum \cup {"_", ".", "+", "-"}
        /\ \A k \in (at + 1)..(dot - 1) : s[k] \in AlphaNum \cup {"-"}
        /\ \A k \in (dot + 1)..(j - 1) : s[k] \in AlphaNum \cup {"-", "."}

IsToken(s, i, j) == IsHandleToken(s, i, j) \/ IsEmailToken(s, i, j)

\* what position i of s becomes: a token's first character the link of the
\* token, any other character of a token nothing, a character outside itself
LinkedAt(s, i) ==
    IF \E j \in i..Len(s) : IsToken(s, i, j)
    THEN LET j == CHOOSE j \in i..Len(s) : IsToken(s, i, j)
         IN  IF IsHandleToken(s, i, j)
             THEN <<"(", "<a href=\"https://github.com/">> \o SubSeq(s, i + 2, j - 1)
                      \o <<"\">", "@">> \o SubSeq(s, i + 2, j - 1) \o <<"</a>", ")">>
             ELSE <<"(", "<a href=\"mailto:">> \o SubSeq(s, i + 1, j - 1)
                      \o <<"\">">> \o SubSeq(s, i + 1, j - 1) \o <<"</a>", ")">>
    ELSE IF \E a \in 1..(i - 1) : \E b \in i..Len(s) : IsToken(s, a, b)
         THEN <<>>
         ELSE <<s[i]>>

RECURSIVE LinkedUpTo(_, _)
LinkedUpTo(s, n) == IF n = 0 THEN <<>> ELSE LinkedUpTo(s, n - 1) \o LinkedAt(s, n)

Octocat == <<"(", "@", "o", "c", "t", "o", "c", "a", "t", ")">>
MeAtExample ==
    <<"(", "m", "e", "@", "e", "x", "a", "m", "p", "l", "e", ".", "c", "o", "m", ")">>
OctocatLink ==
    <<"(", "<a href=\"https://github.com/", "o", "c", "t", "o", "c", "a", "t", "\">",
      "@", "o", "c", "t", "o", "c", "a", "t", "</a>", ")">>
MeAtExampleLink ==
    <<"(", "<a href=\"mailto:", "m", "e", "@", "e", "x", "a", "m", "p", "l", "e", ".",
      "c", "o", "m", "\">", "m", "e", "@", "e", "x", "a", "m", "p", "l", "e", ".",
      "c", "o", "m", "</a>", ")">>

\* C12: linkify_text turns every token (@handle) into its GitHub link and every
\* token (local@domain) into its mailto link, leaves the text outside the
\* tokens as it is and in its order, and does not rewrite the markup of a link;
\* (@octocat) and (me@example.com) give exactly the two link forms.
C12_Linkify ==
    pc = "linkified" =>
        /\ ret = LinkedUpTo(args[1], Len(args[1]))
        /\ (args[1] = Octocat => ret = OctocatLink)
        /\ (args[1] = MeAtExample => ret = MeAtExampleLink)

\* a handle token and an email token with text between them
C12_Witness ==
    /\ pc = "linkified"
    /\ args[1] = Octocat \o <<" ">> \o MeAtExample
    /\ ret = OctocatLink \o <<" ">> \o MeAtExampleLink

\* C13: the scan is deterministic: two chapters with the same events have the
\* same output, whatever was scanned before either of them, and a scan that has
\* read the events of an earlier chapter holds that chapter's output.
C13_Deterministic ==
    /\ \A i, j \in 1..Len(input) :
           (Completed(i) /\ Completed(j) /\ input[i].content = input[j].content)
               => book[i].content = book[j].content
    /\ scanning =>
           \A i \in 1..(Len(input) - 1) :
               (Completed(i) /\ input[i].content = events)
                   => book[i].content = formatted_content

\* two chapters with the same event, both scanned, with the same output
C13_Witness ==
    /\ pc = "for_each"
    /\ Len(input) = 2
    /\ input[1].kind = "Chapter" /\ input[2].kind = "Chapter"
    /\ input[1].content = <<Text(<<"a", "+", "+", "+">>)>>
    /\ input[2].content = input[1].content
    /\ book[2].content = book[1].content
    /\ book[1].content = <<Text(<<"a", "+", "+", "+">>)>>

\* the event the step has read, if the step reads one
Reads == pc = "scan" /\ pc' = "scan" /\ Len(events') = Len(events) + 1
Read == events'[Len(events')]

\* C14: after any prefix of a unit's events capture is true iff the prefix
\* holds an odd number of delimiter events; a step that reads a delimiter event
\* flips capture, a step that reads any other event leaves it, and so does the
\* end of the scan: with exactly two delimiters the scan ends not capturing.
C14_CaptureParity ==
    /\ [](scanning => (capture <=> Odd(Cardinality(Delims(events)))))
    /\ [][Reads => (capture' = IF Read = DelimiterEvent THEN ~capture ELSE capture)]_vars
    /\ [][(scanning /\ ~Reads) => capture' = capture]_vars
    /\ []((pc = "for_each" /\ Len(input) > 0 /\ input[Len(input)].kind = "Chapter"
              /\ Cardinality(Delims(events)) = 2) => ~capture)

\* closed, open, closed: the scan of a unit with two delimiters has ended
C14_Witness ==
    /\ pc = "for_each"
    /\ Len(input) = 1
    /\ input[1].kind = "Chapter"
    /\ events = <<DelimiterEvent, Text(<<"k", ":">>), DelimiterEvent, SoftBreak>>
    /\ ~capture

\* the n-th smallest element of S
Nth(S, n) == CHOOSE x \in S : Cardinality({y \in S : y < x}) = n - 1

\* the table of the region between the delimiters at a and b
TableOf(evs, a, b) ==
    LET lines == Pick(evs, ColonLines(evs, a, b))
    IN  <<Start("HtmlBlock"), TableOpen>>
            \o [k \in 1..Len(lines) |-> RowOf(lines[k].text)]
            \o <<TableClose, End("HtmlBlock")>>

C16_CaptureOnlyText ==
    /\ [][(Reads /\ capture /\ Read # DelimiterEvent) =>
             /\ formatted_content' = formatted_content
             /\ frontmatter_collection' =
                    IF Read.type = "Text"
                    THEN Append(frontmatter_collection, Read.text)
                    ELSE frontmatter_collection]_vars
    /\ []((scanning /\ capture) =>
             LET open == SetMax(Delims(events))
                 texts == {i \in (open + 1)..Len(events) : events[i].type = "Text"}
             IN  /\ Len(frontmatter_collection) = Cardinality(texts)
                 /\ \A k \in 1..Len(frontmatter_collection) :
                        frontmatter_collection[k] = events[Nth(texts, k)].text)

\* a line, a soft break and a second line read inside a region
C16_Witness ==
    /\ scanning
    /\ capture
    /\ events = <<DelimiterEvent, Text(<<" ", "k", " ", ":", " ", "v", ":", "w", " ">>),
                  SoftBreak, Text(<<"a", "+", "+", "+">>)>>
    /\ frontmatter_collection = << <<" ", "k", " ", ":", " ", "v", ":", "w", " ">>,
                                   <<"a", "+", "+", "+">> >>
    /\ formatted_content = <<>>

\* C17: in a unit with one delimiter pair the output is the events before the
\* opening delimiter, then the table, then the events after the closing
\* delimiter; the table is Start(HtmlBlock), the table-open fragment, one row
\* fragment per entry, the table-close fragment, End(HtmlBlock): 4 + N events.
C17_TableSpliced ==
    (scanning /\ Cardinality(Delims(events)) = 2) =>
        LET a == SetMin(Delims(events))
            b == SetMax(Delims(events))
            n == Cardinality(ColonLines(events, a, b))
            out == formatted_content
            table == SubSeq(out, a, a + n + 3)
        IN  /\ Len(out) = (a - 1) + (4 + n) + (Len(events) - b)
            /\ SubSeq(out, 1, a - 1) = SubSeq(events, 1, a - 1)
            /\ SubSeq(out, a + n + 4, Len(out)) = SubSeq(events, b + 1, Len(events))
            /\ table[1] = Start("HtmlBlock")
            /\ table[2] = TableOpen
            /\ \A k \in 3..(n + 2) : IsRow(table[k])
            /\ table[n + 3] = TableClose
            /\ table[n + 4] = End("HtmlBlock")

\* a forwarded event, then a region with one entry: the table of five events
\* follows the forwarded event
C17_Witness ==
    /\ scanning
    /\ events = <<SoftBreak, DelimiterEvent, Text(<<"k", ":">>), DelimiterEvent>>
    /\ formatted_content =
           <<SoftBreak, Start("HtmlBlock"), TableOpen,
             Html(<<"<tr><th>", "k", "</td><td>", "</td></tr>\n">>),
             TableClose, End("HtmlBlock")>>

\* the entries of one raw line: none without a colon, else the one entry of
\* the text before the first colon and the text after it, both stripped
EntriesOf(line) ==
    IF Colons(line) = {} THEN <<>> ELSE << <<KeyOf(line), ValueOf(line)>> >>

\* C18: parse_frontmatter gives an entry for a line iff the line has a colon;
\* the key is the stripped text before the first colon, empty if there is
\* none, and the value the stripped text after the first colon, with every
\* further colon in it.
C18_SplitAtFirstColon ==
    pc = "parsed" =>
        /\ ret = EntriesOf(args[1]) \o EntriesOf(args[2])
        /\ Len(ret) = Cardinality({k \in 1..2 : HasColon(args[k])})
        /\ \A k \in 1..Len(ret) :
               /\ ":" \notin {ret[k][1][i] : i \in 1..Len(ret[k][1])}
               /\ \E l \in 1..2 :
                      Cardinality({i \in 1..Len(ret[k][2]) : ret[k][2][i] = ":"})
                          = Cardinality(Colons(args[l])) - 1

\* a line with two colons and white space around key and value, and a line
\* without a colon
C18_Witness ==
    /\ pc = "parsed"
    /\ args = << <<" ", "k", " ", ":", " ", "v", ":", "w", " ">>, <<"a">> >>
    /\ ret = << << <<"k">>, <<"v", ":", "w">> >> >>

\* C19: whenever capture is false the buffer of raw lines is empty: as the scan
\* of a unit begins, after a closing delimiter and after an event read outside
\* a region; and a step makes the buffer longer only while capture is true.
C19_ClosedMeansEmpty ==
    /\ [](~capture => frontmatter_collection = <<>>)
    /\ [][Len(frontmatter_collection') > Len(frontmatter_collection)
              => (Reads /\ capture /\ capture')]_vars

\* a region with a line was closed and an event was read after it
C19_Witness ==
    /\ scanning
    /\ events = <<DelimiterEvent, Text(<<"k", ":">>), DelimiterEvent, SoftBreak>>
    /\ ~capture
    /\ frontmatter_collection = <<>>

\* C20: every step that reads a closing delimiter appends a table to the
\* output: at least the four events Start(HtmlBlock), table-open, table-close,
\* End(HtmlBlock), and exactly these four when the region gave no entry (no
\* event, no Text event, or no line with a colon).
C20_ClosingEmitsTable ==
    [][(Reads /\ capture /\ Read = DelimiterEvent) =>
          LET n == Len(formatted_content)
              added == SubSeq(formatted_content', n + 1, Len(formatted_content'))
          IN  /\ Len(formatted_content') >= n + 4
              /\ SubSeq(formatted_content', 1, n) = formatted_content
              /\ added[1] = Start("HtmlBlock")
              /\ added[2] = TableOpen
              /\ added[Len(added) - 1] = TableClose
              /\ added[Len(added)] = End("HtmlBlock")
              /\ ((\A k \in 1..Len(frontmatter_collection) :
                       ~HasColon(frontmatter_collection[k]))
                     => Len(added) = 4)]_vars

\* a region with a soft break and a line without a colon was closed
C20_Witness ==
    /\ scanning
    /\ events = <<DelimiterEvent, SoftBreak, Text(<<"a", "+", "+", "+">>), DelimiterEvent>>
    /\ formatted_content = <<Start("HtmlBlock"), TableOpen, TableClose, End("HtmlBlock")>>

====
